---------------------------- MODULE Spec2Model ----------------------------
(***************************************************************************)
(* The inventory intelligence engine: demand velocity, inventory cover,    *)
(* stock health, dead-stock detection, transfer opportunities, the insight *)
(* ranker and the forecast generator, over a snapshot (products, sales)    *)
(* read at the instant `now`.                                              *)
(*                                                                         *)
(* Numbers.  The engine computes in JavaScript doubles; the model computes *)
(* in exact rationals [n, d] (d > 0, lowest terms).  Instants are integers *)
(* counted in ticks, TicksPerDay ticks to a day; a calendar day is         *)
(* tick \div TicksPerDay.  An absent optional number (p.cost, p.price) is  *)
(* the empty sequence, a present one the one-element sequence.             *)
(*                                                                         *)
(* Clock.  One invocation reads the clock once: the successive new Date()  *)
(* of a function are one instant `now`, and setDate(getDate() - n) is the  *)
(* instant n whole days earlier.                                           *)
(*                                                                         *)
(* Sort.  Array.prototype.sort is stable (ECMAScript 2019).                *)
(*                                                                         *)
(* `call` holds the last invocation made on the current snapshot and what  *)
(* it returned; recording a sale starts a new snapshot and clears it.      *)
(***************************************************************************)
EXTENDS Integers, Sequences, FiniteSets, TLC

VARIABLES products, sales, now, call

vars == <<products, sales, now, call>>

----------------------------------------------------------------------------
(* Bounds of the model *)

MaxSales == 2

TicksPerDay == 2

\* number of clock ticks that pass while the engine is in use
MaxTicks == 1

\* number of sales recorded across the stores of the network
MaxStoreSales == 3

----------------------------------------------------------------------------
(* Exact rational arithmetic *)

Abs(x) == IF x < 0 THEN -x ELSE x

RECURSIVE GCD(_, _)
GCD(a, b) == IF b = 0 THEN a ELSE GCD(b, a % b)

Rat(n, d) ==
    LET g == GCD(Abs(n), Abs(d))
        s == IF d < 0 THEN -1 ELSE 1
    IN  [n |-> (s * n) \div g, d |-> (s * d) \div g]

FromInt(i) == [n |-> i, d |-> 1]

RatAdd(x, y) == Rat(x.n * y.d + y.n * x.d, x.d * y.d)
RatSub(x, y) == Rat(x.n * y.d - y.n * x.d, x.d * y.d)
RatMul(x, y) == Rat(x.n * y.n, x.d * y.d)
RatDiv(x, y) == Rat(x.n * y.d, x.d * y.n)
RatLT(x, y) == x.n * y.d < y.n * x.d
RatLE(x, y) == x.n * y.d <= y.n * x.d
RatGT(x, y) == RatLT(y, x)
RatGE(x, y) == RatLE(y, x)
RatMin(x, y) == IF RatLE(x, y) THEN x ELSE y
\* Math.floor and Math.ceil (\div rounds towards minus infinity)
RatFloor(x) == x.n \div x.d
RatCeil(x) == -((-x.n) \div x.d)

----------------------------------------------------------------------------
(* Doubles.  Where the rounding of a result matters, a positive double is a *)
(* significand of Precision bits, most significant first and starting with  *)
(* 1, and the exponent e of its last bit: the value is significand * 2^e.   *)
(* Zero has the empty significand.  Results round to nearest, ties to even. *)

\* bits of the significand of an IEEE 754 binary64 number
Precision == 53

DoubleZero == [m |-> <<>>, e |-> 0]

\* the binary digits of a natural number, none for 0
RECURSIVE BitsOfNat(_)
BitsOfNat(n) == IF n = 0 THEN <<>> ELSE Append(BitsOfNat(n \div 2), n % 2)

\* the natural number of a sequence of binary digits
RECURSIVE NatOfBits(_)
NatOfBits(bits) ==
    IF bits = <<>> THEN 0
    ELSE 2 * NatOfBits(SubSeq(bits, 1, Len(bits) - 1)) + bits[Len(bits)]

\* bits + 1, one digit longer when every digit is 1
IncrementBits(bits) ==
    LET zeros == { i \in 1..Len(bits) : bits[i] = 0 }
    IN  IF zeros = {} THEN <<1>> \o [i \in 1..Len(bits) |-> 0]
        ELSE LET last == CHOOSE i \in zeros : \A j \in zeros : j <= i
             IN  [i \in 1..Len(bits) |->
                    IF i < last THEN bits[i] ELSE IF i = last THEN 1 ELSE 0]

\* the exact value bits * 2^e rounded to Precision digits: roundUp says that what
\* is dropped is more than half a unit of the last kept digit, tie that it is
\* exactly half
RoundToPrecision(bits, e, roundUp, tie) ==
    IF roundUp \/ (tie /\ bits[Len(bits)] = 1)
    THEN LET up == IncrementBits(bits)
         IN  IF Len(up) > Precision
             THEN [m |-> SubSeq(up, 1, Precision), e |-> e + 1]
             ELSE [m |-> up, e |-> e]
    ELSE [m |-> bits, e |-> e]

SquareTimesMod(h, f, d) == (h * h * f) % d

\* 2^j modulo d, for 0 < d < 2^15
RECURSIVE PowerOfTwoMod(_, _)
PowerOfTwoMod(j, d) ==
    IF j = 0 THEN 1 % d
    ELSE SquareTimesMod(PowerOfTwoMod(j \div 2, d), IF j % 2 = 1 THEN 2 ELSE 1, d)

\* what is left of n / d after j binary digits of the fraction
RemainderAfter(n, d, j) == ((n % d) * PowerOfTwoMod(j, d)) % d

\* the i-th binary digit of the fraction of n / d
FractionDigit(n, d, i) == IF 2 * RemainderAfter(n, d, i - 1) >= d THEN 1 ELSE 0

\* n / d in doubles, for naturals n and 0 < d < 2^15
DoubleQuotient(n, d) ==
    IF n = 0 THEN DoubleZero
    ELSE LET whole == BitsOfNat(n \div d)
             first == IF whole # <<>> THEN 1
                      ELSE CHOOSE i \in 1..31 :
                              /\ FractionDigit(n, d, i) = 1
                              /\ \A j \in 1..(i - 1) : FractionDigit(n, d, j) = 0
             last == first + Precision - Len(whole) - 1
             bits == whole \o [k \in 1..(Precision - Len(whole)) |->
                                 FractionDigit(n, d, first + k - 1)]
             r == RemainderAfter(n, d, last)
         IN  RoundToPrecision(bits, -last, 2 * r > d, 2 * r = d)

\* a natural number as a double
DoubleOfNat(n) == DoubleQuotient(n, 1)

\* the `width` binary digits of a natural number below 2^width
FixedBits(n, width) == [i \in 1..width |-> (n \div 2 ^ (width - i)) % 2]

\* the digits of bits * k for a significand and a natural 0 < k < 2^8, worked
\* in three limbs of at most 18 digits
ProductDigits(bits, k) ==
    LET low == NatOfBits(SubSeq(bits, 36, 53)) * k
        middle == NatOfBits(SubSeq(bits, 18, 35)) * k + low \div 2 ^ 18
        high == NatOfBits(SubSeq(bits, 1, 17)) * k + middle \div 2 ^ 18
    IN  BitsOfNat(high) \o FixedBits(middle % 2 ^ 18, 18) \o FixedBits(low % 2 ^ 18, 18)

\* x * k in doubles, for a double x >= 0 and a natural 0 < k < 2^8
DoubleTimesNat(x, k) ==
    IF x.m = <<>> THEN DoubleZero
    ELSE LET product == ProductDigits(x.m, k)
             extra == Len(product) - Precision
             dropped == NatOfBits(SubSeq(product, Precision + 1, Len(product)))
             half == 2 ^ (extra - 1)
         IN  IF extra = 0 THEN [m |-> product, e |-> x.e]
             ELSE RoundToPrecision(SubSeq(product, 1, Precision), x.e + extra,
                                   dropped > half, dropped = half)

\* Math.ceil of a double x >= 0 below 2^30
DoubleCeil(x) ==
    IF x.m = <<>> THEN 0
    ELSE IF x.e >= 0 THEN NatOfBits(x.m) * 2 ^ x.e
    ELSE IF -x.e >= Precision THEN 1
    ELSE LET whole == SubSeq(x.m, 1, Precision + x.e)
             fraction == SubSeq(x.m, Precision + x.e + 1, Precision)
         IN  NatOfBits(whole) + (IF \E i \in 1..Len(fraction) : fraction[i] = 1 THEN 1 ELSE 0)

\* the double a quotient of the engine is held as
AsDouble(x) == DoubleQuotient(x.n, x.d)

----------------------------------------------------------------------------
(* Sequences *)

RECURSIVE SumSeq(_)
SumSeq(s) == IF s = <<>> THEN 0 ELSE Head(s) + SumSeq(Tail(s))

RECURSIVE SumFun(_, _)
SumFun(f, S) ==
    IF S = {} THEN 0
    ELSE LET x == CHOOSE y \in S : TRUE IN f[x] + SumFun(f, S \ {x})

RECURSIVE Flatten(_)
Flatten(ss) == IF ss = <<>> THEN <<>> ELSE Head(ss) \o Flatten(Tail(ss))

----------------------------------------------------------------------------
(* Optional numbers: `x || 0` *)

None == <<>>
Some(v) == <<v>>
OrZero(x) == IF x = None THEN 0 ELSE x[1]

----------------------------------------------------------------------------
(* Instants *)

Epoch == 0

\* d.setDate(now.getDate() - days): the same time of day, `days` days earlier
DaysBefore(t, days) == t - days * TicksPerDay

\* (a.getTime() - b.getTime()) / (1000 * 3600 * 24), in days
DaysBetween(later, earlier) == Rat(later - earlier, TicksPerDay)

----------------------------------------------------------------------------
(* 1. Data intelligence preparation *)

\* sale.items.find(i => i.id === productId): the first matching line
RECURSIVE FindItem(_, _)
FindItem(items, productId) ==
    IF items = <<>> THEN None
    ELSE IF Head(items).id = productId THEN Some(Head(items))
    ELSE FindItem(Tail(items), productId)

\* item ? item.quantity : 0
ItemQuantity(sale, productId) ==
    LET item == FindItem(sale.items, productId)
    IN  IF item = None THEN 0 ELSE item[1].quantity

\* s.items.some(i => i.id === productId)
HasItem(sale, productId) == \E i \in 1..Len(sale.items) : sale.items[i].id = productId


\* the window open at its older end
InVelocityWindowAfterPastDate(saleDate, pastDate, t) == saleDate > pastDate /\ saleDate <= t

InVelocityWindow(saleDate, pastDate, t) == saleDate >= pastDate /\ saleDate <= t

RECURSIVE TotalQty(_, _)
TotalQty(relevantSales, productId) ==
    IF relevantSales = <<>> THEN 0
    ELSE ItemQuantity(Head(relevantSales), productId)
         + TotalQty(Tail(relevantSales), productId)

\* an empty history answered with a floor of one unit per day
EmptyVelocityOne == FromInt(1)

EmptyVelocity == FromInt(0)

calculateDemandVelocity(productId, ss, days, t) ==
    IF Len(ss) = 0 THEN EmptyVelocity
    ELSE LET pastDate == DaysBefore(t, days)
             relevantSales == SelectSeq(ss, LAMBDA s : InVelocityWindow(s.date, pastDate, t))
         IN  Rat(TotalQty(relevantSales, productId), days)

InfiniteCover == 999

\* the sentinel returned whenever nothing sells, stock or no stock
calculateInventoryCoverAlwaysSentinel(stockQuantity, velocity) ==
    IF RatLE(velocity, FromInt(0)) THEN FromInt(InfiniteCover)
    ELSE RatDiv(stockQuantity, velocity)

calculateInventoryCover(stockQuantity, velocity) ==
    IF RatLE(velocity, FromInt(0))
    THEN (IF RatGT(stockQuantity, FromInt(0)) THEN FromInt(InfiniteCover) ELSE FromInt(0))
    ELSE RatDiv(stockQuantity, velocity)

\* the divisor floored at one day instead of replaced only when it is zero
calculateAgingScoreFloorOne(lastMovementDate, coverDays, t) ==
    IF lastMovementDate = None THEN FromInt(0)
    ELSE RatDiv(DaysBetween(t, lastMovementDate[1]),
                IF RatLT(coverDays, FromInt(1)) THEN FromInt(1) ELSE coverDays)

calculateAgingScore(lastMovementDate, coverDays, t) ==
    IF lastMovementDate = None THEN FromInt(0)
    ELSE LET daysSinceMovement == DaysBetween(t, lastMovementDate[1])
             safeCoverDays == IF coverDays = FromInt(0) THEN FromInt(1) ELSE coverDays
         IN  RatDiv(daysSinceMovement, safeCoverDays)

----------------------------------------------------------------------------
(* 2. Core analytical algorithms *)

DefaultOptimalCover == 30
DefaultSafetyStockDays == 7

\* the two checks in the opposite order
analyzeStockHealthRiskFirst(coverDays, optimalCover, safetyStockDays) ==
    IF RatLT(coverDays, FromInt(safetyStockDays)) THEN "Stockout Risk"
    ELSE IF RatGT(coverDays, FromInt(2 * optimalCover)) THEN "Overstock"
    ELSE "Healthy"

analyzeStockHealth(coverDays, optimalCover, safetyStockDays) ==
    IF RatGT(coverDays, FromInt(2 * optimalCover)) THEN "Overstock"
    ELSE IF RatLT(coverDays, FromInt(safetyStockDays)) THEN "Stockout Risk"
    ELSE "Healthy"

\* Object.values(product.stock).reduce((a, b) => a + b, 0)
TotalStock(p) == SumFun(p.stock, DOMAIN p.stock)

\* the date of the last sale in list order, as if the list were in date order
RECURSIVE LastSaleDateInListOrder(_, _, _)
LastSaleDateInListOrder(ss, productId, lastSaleDate) ==
    IF ss = <<>> THEN lastSaleDate
    ELSE LastSaleDateInListOrder(Tail(ss), productId,
                                 IF HasItem(Head(ss), productId)
                                 THEN Head(ss).date ELSE lastSaleDate)

\* the most recent sale date of the product, the epoch if it never sold
RECURSIVE LastSaleDate(_, _, _)
LastSaleDate(ss, productId, lastSaleDate) ==
    IF ss = <<>> THEN lastSaleDate
    ELSE LET s == Head(ss)
             next == IF HasItem(s, productId) /\ s.date > lastSaleDate
                     THEN s.date ELSE lastSaleDate
         IN  LastSaleDate(Tail(ss), productId, next)

DefaultThresholdDays == 90

\* the stock check left out
detectDeadStockIgnoringStock(p, ss, thresholdDays, t) ==
    RatGT(DaysBetween(t, LastSaleDate(ss, p.id, Epoch)), FromInt(thresholdDays))

\* every stocked product taken for dead stock, whenever it last sold
detectDeadStockWhateverTheSales(p, ss, thresholdDays, t) == TotalStock(p) > 0

detectDeadStock(p, ss, thresholdDays, t) ==
    LET lastSaleDate == LastSaleDate(ss, p.id, Epoch)
        daysSinceLastSale == DaysBetween(t, lastSaleDate)
        totalStock == TotalStock(p)
    IN  totalStock > 0 /\ RatGT(daysSinceLastSale, FromInt(thresholdDays))

----------------------------------------------------------------------------
(* Stable Array.prototype.sort with the comparator (a, b) => key(b) - key(a):  *)
(* the indices 1..n of an array whose i-th element has key k[i], in sorted     *)
(* order; equal keys keep their order.                                         *)

\* an unstable sort: an element is placed before the elements of equal key
RECURSIVE InsertDescUnstable(_, _, _)
InsertDescUnstable(sorted, x, k) ==
    IF sorted = <<>> THEN <<x>>
    ELSE IF k[Head(sorted)] <= k[x] THEN <<x>> \o sorted
    ELSE <<Head(sorted)>> \o InsertDescUnstable(Tail(sorted), x, k)

RECURSIVE InsertDesc(_, _, _)
InsertDesc(sorted, x, k) ==
    IF sorted = <<>> THEN <<x>>
    ELSE IF k[Head(sorted)] < k[x] THEN <<x>> \o sorted
    ELSE <<Head(sorted)>> \o InsertDesc(Tail(sorted), x, k)

RECURSIVE SortedIndicesDesc(_, _)
SortedIndicesDesc(k, n) ==
    IF n = 0 THEN <<>> ELSE InsertDesc(SortedIndicesDesc(k, n - 1), n, k)

SortDesc(s, k) ==
    LET idx == SortedIndicesDesc(k, Len(s))
    IN  [j \in 1..Len(s) |-> s[idx[j]]]

\* a.slice(0, n)
Slice(s, n) == SubSeq(s, 1, IF Len(s) < n THEN Len(s) ELSE n)

----------------------------------------------------------------------------
(* 3. Multi-warehouse transfer optimization *)

warehouseIds == <<"warehouse-a", "store-downtown", "north-branch", "city-center-store">>

DefaultVelocityDays == 30

\* p.stock[locId] || 0
StockAt(p, locId) == IF locId \in DOMAIN p.stock THEN p.stock[locId] ELSE 0

\* the velocity of a location taken from the sales of every location
LocStatFromAllSales(p, locId, ss, t) ==
    LET stock == StockAt(p, locId)
        velocity == calculateDemandVelocity(p.id, ss, DefaultVelocityDays, t)
        cover == calculateInventoryCover(FromInt(stock), velocity)
    IN  [locId |-> locId, stock |-> stock, velocity |-> velocity, cover |-> cover]

LocStat(p, locId, ss, t) ==
    LET stock == StockAt(p, locId)
        localSales == SelectSeq(ss, LAMBDA s : s.locationId = locId)
        velocity == calculateDemandVelocity(p.id, localSales, DefaultVelocityDays, t)
        cover == calculateInventoryCover(FromInt(stock), velocity)
    IN  [locId |-> locId, stock |-> stock, velocity |-> velocity, cover |-> cover]

IsOverstocked(l) == RatGT(l.cover, FromInt(60))

\* a location starving on its demand alone, whatever its cover
IsStarvingOnDemandAlone(l) == RatGT(l.velocity, Rat(1, 10))

IsStarving(l) == RatLT(l.cover, FromInt(10)) /\ RatGT(l.velocity, Rat(1, 10))

HasMeaningfulExcess(source) == source.stock > 10

\* the target's need alone, without the cap at half of the source's stock
TransferQtyUncapped(source, target) ==
    RatFloor(RatMul(RatSub(FromInt(30), target.cover), target.velocity))

TransferQty(source, target) ==
    RatFloor(RatMin(RatMul(FromInt(source.stock), Rat(1, 2)),
                    RatMul(RatSub(FromInt(30), target.cover), target.velocity)))

\* the handling charged at 1 a unit instead of 2
TransferCostHalfHandling(transferQty) == 50 + transferQty

TransferCost(transferQty) == 50 + (transferQty * 2)

\* a break-even transfer is let through
WorthTransferringAtLeast(estimatedGain, transferCost) == estimatedGain >= transferCost

WorthTransferring(estimatedGain, transferCost) == estimatedGain > transferCost

\* a transfer filed under the category the engine never uses
TransferInsightFiledAsGrowth(p, source, target, transferQty, estimatedGain, transferCost) ==
    [id |-> <<"transfer", p.id, source.locId, target.locId>>,
     type |-> "Growth",
     impact |-> Some(target.locId),
     roiImpact |-> Some(FromInt(estimatedGain - transferCost)),
     confidenceScore |-> Rat(9, 10),
     actionType |-> "TRANSFER",
     metadata |-> [productId |-> p.id, from |-> source.locId,
                   to |-> target.locId, qty |-> transferQty]]

TransferInsight(p, source, target, transferQty, estimatedGain, transferCost) ==
    [id |-> <<"transfer", p.id, source.locId, target.locId>>,
     type |-> "Profit Optimization",
     impact |-> Some(target.locId),
     roiImpact |-> Some(FromInt(estimatedGain - transferCost)),
     confidenceScore |-> Rat(9, 10),
     actionType |-> "TRANSFER",
     metadata |-> [productId |-> p.id, from |-> source.locId,
                   to |-> target.locId, qty |-> transferQty]]

\* the body of the inner forEach: zero or one insight for a (source, target) pair
MatchTransfer(p, source, target) ==
    IF ~HasMeaningfulExcess(source) THEN <<>>
    ELSE LET transferQty == TransferQty(source, target) IN
         IF ~(transferQty > 0) THEN <<>>
         ELSE LET cost == OrZero(p.cost)
                  price == OrZero(p.price)
                  margin == price - cost
                  estimatedGain == margin * transferQty
                  transferCost == TransferCost(transferQty)
              IN  IF WorthTransferring(estimatedGain, transferCost)
                  THEN <<TransferInsight(p, source, target, transferQty,
                                         estimatedGain, transferCost)>>
                  ELSE <<>>

ProductTransfers(p, ss, t) ==
    LET locStats == [i \in 1..Len(warehouseIds) |-> LocStat(p, warehouseIds[i], ss, t)]
        overstocked == SelectSeq(locStats, IsOverstocked)
        starving == SelectSeq(locStats, IsStarving)
    IN  Flatten([i \in 1..Len(overstocked) |->
            Flatten([j \in 1..Len(starving) |->
                MatchTransfer(p, overstocked[i], starving[j])])])

findTransferOpportunities(ps, ss, t) ==
    Flatten([i \in 1..Len(ps) |-> ProductTransfers(ps[i], ss, t)])

----------------------------------------------------------------------------
(* 4. Main insight generator *)

\* NaN: the result of arithmetic on an absent number
NaN == <<>>

\* capital blocked of exactly 1000 counted as material
IsMaterialInclusive(capitalBlocked) == capitalBlocked >= 1000

IsMaterial(capitalBlocked) == capitalBlocked > 1000

DeadStockInsight(p, ss, t) ==
    IF ~detectDeadStock(p, ss, DefaultThresholdDays, t) THEN <<>>
    ELSE LET totalStock == TotalStock(p)
             capitalBlocked == totalStock * OrZero(p.cost)
         IN  IF IsMaterial(capitalBlocked)
             THEN <<[id |-> <<"deadstock", p.id>>,
                     type |-> "Cash Flow",
                     impact |-> Some(capitalBlocked),
                     roiImpact |-> Some(RatMul(FromInt(capitalBlocked), Rat(7, 10))),
                     confidenceScore |-> Rat(85, 100),
                     actionType |-> "LIQUIDATE",
                     metadata |-> [productId |-> p.id, currentStock |-> totalStock]]>>
             ELSE <<>>

\* both thresholds taken inclusively
NeedsReorderInclusive(overallCover, overallDistVelocity) ==
    RatLE(overallCover, FromInt(14)) /\ RatGE(overallDistVelocity, Rat(1, 2))

NeedsReorder(overallCover, overallDistVelocity) ==
    RatLT(overallCover, FromInt(14)) /\ RatGT(overallDistVelocity, Rat(1, 2))

\* overallDistVelocity * 14 * (p.price - p.cost), with neither defaulted
ProtectedProfit(p, overallDistVelocity) ==
    IF p.price = None \/ p.cost = None THEN NaN
    ELSE Some(RatMul(RatMul(overallDistVelocity, FromInt(14)),
                     FromInt(p.price[1] - p.cost[1])))

ReorderInsight(p, ss, t) ==
    LET overallDistVelocity == calculateDemandVelocity(p.id, ss, DefaultVelocityDays, t)
        totalStock == TotalStock(p)
        overallCover == calculateInventoryCover(FromInt(totalStock), overallDistVelocity)
    IN  IF NeedsReorder(overallCover, overallDistVelocity)
        THEN LET reorderQty == DoubleCeil(DoubleTimesNat(AsDouble(overallDistVelocity), 30))
             IN  <<[id |-> <<"reorder", p.id>>,
                    type |-> "Risk Mitigation",
                    impact |-> Some(RatFloor(overallCover)),
                    roiImpact |-> ProtectedProfit(p, overallDistVelocity),
                    confidenceScore |-> Rat(95, 100),
                    actionType |-> "REORDER",
                    metadata |-> [productId |-> p.id, reorderQty |-> reorderQty]]>>
        ELSE <<>>

\* the list `insights` as it stands before the sort (lines 205-253)
CandidateInsights(ps, ss, t) ==
    findTransferOpportunities(ps, ss, t)
    \o Flatten([i \in 1..Len(ps) |-> DeadStockInsight(ps[i], ss, t)])
    \o Flatten([i \in 1..Len(ps) |-> ReorderInsight(ps[i], ss, t)])

priorityMap ==
    [ty \in {"Risk Mitigation", "Profit Optimization", "Cash Flow", "Growth"} |->
        CASE ty = "Risk Mitigation" -> 3
          [] ty = "Profit Optimization" -> 2
          [] ty = "Cash Flow" -> 1
          [] ty = "Growth" -> 0]

TopN == 5

\* the candidates truncated without the sort
RankInsightsUnsorted(insights) == Slice(insights, TopN)

RankInsights(insights) ==
    Slice(SortDesc(insights, [i \in 1..Len(insights) |-> priorityMap[insights[i].type]]), TopN)

generateStrategicInsights(ps, ss, t) == RankInsights(CandidateInsights(ps, ss, t))

----------------------------------------------------------------------------
(* 5. Forecasting and growth engine *)

\* saleDate.toISOString().split('T')[0]: the calendar day of an instant
DateStr(saleDate) == saleDate \div TicksPerDay

\* dailyHistory[dateStr] = (dailyHistory[dateStr] || 0) + quantity, the entries
\* kept in the order their keys were first written
AddToHistory(dailyHistory, dateStr, quantity) ==
    IF \E i \in 1..Len(dailyHistory) : dailyHistory[i].date = dateStr
    THEN [i \in 1..Len(dailyHistory) |->
            IF dailyHistory[i].date = dateStr
            THEN [date |-> dateStr, value |-> dailyHistory[i].value + quantity]
            ELSE dailyHistory[i]]
    ELSE Append(dailyHistory, [date |-> dateStr, value |-> quantity])

\* the body of productSales.forEach for one sale
AccumulateSale(acc, s, productId, thirtyDaysAgo, sixtyDaysAgo) ==
    LET item == FindItem(s.items, productId) IN
    IF item = None THEN acc
    ELSE LET quantity == item[1].quantity IN
         [dailyHistory |-> IF s.date >= sixtyDaysAgo
                           THEN AddToHistory(acc.dailyHistory, DateStr(s.date), quantity)
                           ELSE acc.dailyHistory,
          currentQty |-> IF s.date >= thirtyDaysAgo
                         THEN acc.currentQty + quantity ELSE acc.currentQty,
          previousQty |-> IF ~(s.date >= thirtyDaysAgo) /\ s.date >= sixtyDaysAgo
                          THEN acc.previousQty + quantity ELSE acc.previousQty]

RECURSIVE AccumulateSales(_, _, _, _, _)
AccumulateSales(acc, productSales, productId, thirtyDaysAgo, sixtyDaysAgo) ==
    IF productSales = <<>> THEN acc
    ELSE AccumulateSales(
            AccumulateSale(acc, Head(productSales), productId, thirtyDaysAgo, sixtyDaysAgo),
            Tail(productSales), productId, thirtyDaysAgo, sixtyDaysAgo)


\* the 100% sentinel given to every product without previous sales
GrowthRateAlwaysSentinel(currentQty, previousQty) ==
    IF previousQty > 0 THEN Rat((currentQty - previousQty) * 100, previousQty)
    ELSE FromInt(100)

GrowthRate(currentQty, previousQty) ==
    IF previousQty > 0 THEN Rat((currentQty - previousQty) * 100, previousQty)
    ELSE IF currentQty > 0 THEN FromInt(100)
    ELSE FromInt(0)

\* the growth thresholds tested before the New case
TrendGrowthFirst(currentQty, previousQty, growthRate) ==
    IF RatGE(growthRate, FromInt(20)) THEN "High Growth"
    ELSE IF RatLE(growthRate, FromInt(-20)) THEN "Declining"
    ELSE IF previousQty = 0 /\ currentQty > 0 THEN "New"
    ELSE "Stable"


\* the thresholds taken strictly
TrendStrictThresholds(currentQty, previousQty, growthRate) ==
    IF previousQty = 0 /\ currentQty > 0 THEN "New"
    ELSE IF RatGT(growthRate, FromInt(20)) THEN "High Growth"
    ELSE IF RatLT(growthRate, FromInt(-20)) THEN "Declining"
    ELSE "Stable"

Trend(currentQty, previousQty, growthRate) ==
    IF previousQty = 0 /\ currentQty > 0 THEN "New"
    ELSE IF RatGE(growthRate, FromInt(20)) THEN "High Growth"
    ELSE IF RatLE(growthRate, FromInt(-20)) THEN "Declining"
    ELSE "Stable"


\* the two momentum factors exchanged
MomentumFactorExchanged(trend) ==
    IF trend = "High Growth" THEN Rat(9, 10)
    ELSE IF trend = "Declining" THEN Rat(12, 10)
    ELSE FromInt(1)

MomentumFactor(trend) ==
    IF trend = "High Growth" THEN Rat(12, 10)
    ELSE IF trend = "Declining" THEN Rat(9, 10)
    ELSE FromInt(1)

\* Object.entries(dailyHistory) sorted by ascending date
HistoryArray(dailyHistory) ==
    SortDesc(dailyHistory, [i \in 1..Len(dailyHistory) |-> -dailyHistory[i].date])

ProductForecast(p, ss, t) ==
    LET thirtyDaysAgo == DaysBefore(t, 30)
        sixtyDaysAgo == DaysBefore(t, 60)
        productSales == SelectSeq(ss, LAMBDA s : HasItem(s, p.id))
        acc == AccumulateSales([dailyHistory |-> <<>>, currentQty |-> 0, previousQty |-> 0],
                               productSales, p.id, thirtyDaysAgo, sixtyDaysAgo)
        growthRate == GrowthRate(acc.currentQty, acc.previousQty)
        trend == Trend(acc.currentQty, acc.previousQty, growthRate)
        baseForecast == acc.currentQty
        forecastedSales == RatCeil(RatMul(FromInt(baseForecast), MomentumFactor(trend)))
    IN  [productId |-> p.id,
         currentMonthlySales |-> acc.currentQty,
         previousMonthlySales |-> acc.previousQty,
         growthRate |-> growthRate,
         trend |-> trend,
         forecastedSales |-> forecastedSales,
         confidence |-> Rat(85, 100),
         history |-> HistoryArray(acc.dailyHistory)]


\* the forecasts left in the order of the products
generateProductForecastsUnsorted(ps, ss, t) ==
    [i \in 1..Len(ps) |-> ProductForecast(ps[i], ss, t)]

generateProductForecasts(ps, ss, t) ==
    LET forecasts == [i \in 1..Len(ps) |-> ProductForecast(ps[i], ss, t)]
    IN  SortDesc(forecasts, [i \in 1..Len(ps) |-> forecasts[i].forecastedSales])

----------------------------------------------------------------------------
(* The snapshots the engine is run on *)

\* the instant of the first clock reading, later than Epoch by more than the
\* 90-day dead-stock threshold (as every real clock reading is)
Now0 == 100 * TicksPerDay

NoCall == [op |-> "none"]

Product(id, cost, price, stock) ==
    [id |-> id, name |-> id, cost |-> cost, price |-> price, stock |-> stock]

Item(id, quantity) == [id |-> id, quantity |-> quantity]

Sale(date, locationId, items) == [date |-> date, locationId |-> locationId, items |-> items]

\* Product documents (id, cost, price, stock: Map locationId -> quantity)
TwoSources == ("warehouse-a" :> 20) @@ ("store-downtown" :> 20)
SourceAndTarget == ("warehouse-a" :> 100) @@ ("north-branch" :> 2)
OneWarehouse == ("warehouse-a" :> 100)
NoStock == ("warehouse-a" :> 0) @@ ("north-branch" :> 0)

ProductProfiles ==
    { [cost |-> Some(10), price |-> Some(18), stock |-> TwoSources],
      [cost |-> Some(10), price |-> Some(17), stock |-> TwoSources],
      [cost |-> None,     price |-> Some(20), stock |-> SourceAndTarget],
      [cost |-> Some(11), price |-> None,     stock |-> OneWarehouse],
      [cost |-> Some(10), price |-> Some(18), stock |-> NoStock] }

ProductIds == <<"p1", "p2">>

\* product lists of one or two products with distinct ids
Catalogues ==
    { <<Product(ProductIds[1], a.cost, a.price, a.stock)>> : a \in ProductProfiles }
    \cup
    { <<Product(ProductIds[1], a.cost, a.price, a.stock),
        Product(ProductIds[2], b.cost, b.price, b.stock)>> :
        a \in ProductProfiles, b \in ProductProfiles }

\* Sale documents (date, locationId, items: array of {id, quantity}); a sale may
\* hold several lines of one product
InsightSales ==
    { Sale(d, l, i) :
        d \in {Now0 - TicksPerDay, Now0 - 90 * TicksPerDay - 1},
        l \in {"north-branch", "city-center-store"},
        i \in { <<Item("p1", 50), Item("p2", 50)>>,
                <<Item("p1", 15)>> } }

ForecastCatalogues ==
    { <<Product("p1", Some(10), Some(18), OneWarehouse),
        Product("p2", Some(10), Some(18), NoStock)>> }

ForecastSales ==
    { Sale(d, "north-branch", i) :
        d \in {Now0 + 1, Now0, Now0 - 30 * TicksPerDay, Now0 - 30 * TicksPerDay - 1,
               Now0 - 60 * TicksPerDay, Now0 - 60 * TicksPerDay - 1},
        i \in { <<Item("p1", 4)>>, <<Item("p1", 5)>>, <<Item("p1", 6)>>,
                <<Item("p1", 5), Item("p1", 5)>>,
                <<Item("p2", 5), Item("p1", 15)>> } }

\* Catalogues and sales at the boundaries of the engine's thresholds: a balance
\* whose margin just pays or just fails to pay a transfer, a stock whose blocked
\* capital is exactly or just above the materiality threshold, a thin stock
\* with no price, and sales dated exactly 30 and 90 days before the first
\* reading of the clock
OnlyNorthBranch == ("north-branch" :> 2)

BoundaryProfiles ==
    { [cost |-> Some(10), price |-> Some(15), stock |-> SourceAndTarget],
      [cost |-> Some(10), price |-> Some(16), stock |-> SourceAndTarget],
      [cost |-> Some(10), price |-> Some(18), stock |-> OneWarehouse],
      [cost |-> Some(11), price |-> None,     stock |-> OneWarehouse],
      [cost |-> Some(10), price |-> None,     stock |-> OnlyNorthBranch] }

BoundaryCatalogues ==
    { <<Product(ProductIds[1], a.cost, a.price, a.stock)>> : a \in BoundaryProfiles }
    \cup
    { <<Product(ProductIds[1], a.cost, a.price, a.stock),
        Product(ProductIds[2], b.cost, b.price, b.stock)>> :
        a \in BoundaryProfiles, b \in BoundaryProfiles }

BoundarySales ==
    { Sale(d, "north-branch", i) :
        d \in {Now0 - 30 * TicksPerDay, Now0 - 90 * TicksPerDay},
        i \in { <<Item("p1", 15)>>, <<Item("p1", 15), Item("p2", 16)>> } }

\* One product spread over the four candidate locations and one location the
\* engine does not consider, with stocks and sales at the boundaries of the
\* transfer conditions: 30 units against 15 sold is a cover of exactly 60 days,
\* 5 units against 15 sold a cover of exactly 10, 3 sold in 30 days a velocity
\* of exactly 0.1, and a stock of 10 or 11 units
NetworkStock(downtown) ==
    ("warehouse-a" :> 30) @@ ("store-downtown" :> downtown) @@ ("north-branch" :> 0)
    @@ ("city-center-store" :> 5) @@ ("returns-depot" :> 50)

TransferCatalogues ==
    { <<Product("p1", Some(10), Some(40), NetworkStock(downtown))>> : downtown \in {10, 11} }

TransferSales ==
    { Sale(d, l, <<Item("p1", q)>>) :
        d \in {Now0 - TicksPerDay, Now0 - 30 * TicksPerDay - 1},
        l \in {"warehouse-a", "store-downtown", "north-branch", "city-center-store"},
        q \in {3, 4, 15} }

\* one product held at the warehouse while the downtown store is sold out or
\* holds 10 units
StoreCatalogues ==
    { <<Product("p1", Some(10), Some(40), NetworkStock(downtown))>> : downtown \in {0, 10} }

\* yesterday's sales of the product at the three stores
StoreSales ==
    { Sale(Now0 - TicksPerDay, l, <<Item("p1", q)>>) :
        l \in {"store-downtown", "north-branch", "city-center-store"},
        q \in {4, 16} }

\* sales on the edges of the 30-day window whose quantities add up to 15, 16,
\* 30, 31 and 32 units
AgreementSales ==
    { Sale(d, "north-branch", i) :
        d \in {Now0 + 1, Now0, Now0 - 30 * TicksPerDay, Now0 - 30 * TicksPerDay - 1},
        i \in { <<Item("p1", 15)>>, <<Item("p1", 16)>>, <<Item("p1", 5), Item("p1", 5)>> } }

DaysArgs == {30, 60}
ThresholdArgs == {0, 90}

\* arguments of the metric primitives
StockArgs == (0..3) \cup {InfiniteCover}
VelocityArgs == { Rat(a, b) : a \in -1..3, b \in {1, 2, 3, 30} }
CoverArgs == { Rat(a, 2) : a \in {0, 13, 14, 15, 100, 120, 121, 2 * InfiniteCover} }
OptimalCoverArgs == {DefaultOptimalCover, 2}
MovementDateArgs == {None, Some(Now0 - 10 * TicksPerDay), Some(Now0 - 1)}
AgingCoverArgs == { Rat(a, 2) : a \in {0, 1, 2, 3, 60, 2 * InfiniteCover} }
SafetyStockArgs == {DefaultSafetyStockDays, 100}

----------------------------------------------------------------------------
(* Operations *)

\* POST /api/sales: a sale is appended to the history
RecordSale(choices) ==
    /\ Len(sales) < MaxSales
    /\ \E s \in choices : sales' = Append(sales, s)
    /\ call' = NoCall
    /\ UNCHANGED <<products, now>>

CallFindTransferOpportunities ==
    /\ call' = [op |-> "findTransferOpportunities", at |-> now,
                ret |-> findTransferOpportunities(products, sales, now)]
    /\ UNCHANGED <<products, sales, now>>

\* the insight list kept between invocations instead of built afresh
CallGenerateStrategicInsightsAccumulating ==
    /\ call' = [op |-> "generateStrategicInsights", at |-> now,
                ret |-> RankInsights(
                    (IF call.op = "generateStrategicInsights" THEN call.ret ELSE <<>>)
                    \o CandidateInsights(products, sales, now))]
    /\ UNCHANGED <<products, sales, now>>

CallGenerateStrategicInsights ==
    /\ call' = [op |-> "generateStrategicInsights", at |-> now,
                ret |-> generateStrategicInsights(products, sales, now)]
    /\ UNCHANGED <<products, sales, now>>

CallDetectDeadStock ==
    /\ \E i \in 1..Len(products), thresholdDays \in ThresholdArgs :
          call' = [op |-> "detectDeadStock", at |-> now,
                   product |-> i, thresholdDays |-> thresholdDays,
                   ret |-> detectDeadStock(products[i], sales, thresholdDays, now)]
    /\ UNCHANGED <<products, sales, now>>

\* new Date() reads a later instant on a later invocation
Tick ==
    /\ now < Now0 + MaxTicks
    /\ now' = now + 1
    /\ UNCHANGED <<products, sales, call>>

\* the forecasts sorted in the products array itself instead of in a mapped copy
CallGenerateProductForecastsSortingInPlace ==
    LET ret == generateProductForecasts(products, sales, now)
    IN  /\ call' = [op |-> "generateProductForecasts", at |-> now, ret |-> ret]
        /\ products' = [k \in 1..Len(ret) |->
                          products[CHOOSE i \in 1..Len(products) :
                                      products[i].id = ret[k].productId]]
        /\ UNCHANGED <<sales, now>>

CallGenerateProductForecasts ==
    /\ call' = [op |-> "generateProductForecasts", at |-> now,
                ret |-> generateProductForecasts(products, sales, now)]
    /\ UNCHANGED <<products, sales, now>>

CallCalculateDemandVelocity ==
    /\ \E i \in 1..Len(ProductIds), days \in DaysArgs :
          call' = [op |-> "calculateDemandVelocity", at |-> now,
                   productId |-> ProductIds[i], days |-> days,
                   ret |-> calculateDemandVelocity(ProductIds[i], sales, days, now)]
    /\ UNCHANGED <<products, sales, now>>

CallCalculateInventoryCover ==
    /\ \E stockQuantity \in StockArgs, velocity \in VelocityArgs :
          call' = [op |-> "calculateInventoryCover",
                   stockQuantity |-> stockQuantity, velocity |-> velocity,
                   ret |-> calculateInventoryCover(FromInt(stockQuantity), velocity)]
    /\ UNCHANGED <<products, sales, now>>

CallCalculateAgingScore ==
    /\ \E lastMovementDate \in MovementDateArgs, coverDays \in AgingCoverArgs :
          call' = [op |-> "calculateAgingScore", at |-> now,
                   lastMovementDate |-> lastMovementDate, coverDays |-> coverDays,
                   ret |-> calculateAgingScore(lastMovementDate, coverDays, now)]
    /\ UNCHANGED <<products, sales, now>>

CallAnalyzeStockHealth ==
    /\ \E coverDays \in CoverArgs, optimalCover \in OptimalCoverArgs,
          safetyStockDays \in SafetyStockArgs :
          call' = [op |-> "analyzeStockHealth", coverDays |-> coverDays,
                   optimalCover |-> optimalCover, safetyStockDays |-> safetyStockDays,
                   ret |-> analyzeStockHealth(coverDays, optimalCover, safetyStockDays)]
    /\ UNCHANGED <<products, sales, now>>

----------------------------------------------------------------------------
(* Specifications *)

\* the strategic insight generator over a growing sales history
Init ==
    /\ products \in Catalogues
    /\ sales = <<>>
    /\ now = Now0
    /\ call = NoCall

Next ==
    \/ RecordSale(InsightSales)
    \/ CallFindTransferOpportunities
    \/ CallGenerateStrategicInsights
    \/ CallDetectDeadStock

Spec == Init /\ [][Next]_vars

\* the forecast generator and the demand velocity over dated sales
InitForecast ==
    /\ products \in ForecastCatalogues
    /\ sales = <<>>
    /\ now = Now0
    /\ call = NoCall

NextForecast ==
    \/ RecordSale(ForecastSales)
    \/ CallGenerateProductForecasts
    \/ CallCalculateDemandVelocity

SpecForecast == InitForecast /\ [][NextForecast]_vars

\* every generator over one snapshot while the clock advances
InitClock ==
    /\ products \in BoundaryCatalogues
    /\ sales = <<>>
    /\ now = Now0
    /\ call = NoCall

NextClock ==
    \/ RecordSale(BoundarySales)
    \/ Tick
    \/ CallFindTransferOpportunities
    \/ CallGenerateStrategicInsights
    \/ CallDetectDeadStock
    \/ CallGenerateProductForecasts

SpecClock == InitClock /\ [][NextClock]_vars

\* the forecast generator beside the demand velocity
InitAgreement ==
    /\ products \in ForecastCatalogues
    /\ sales = <<>>
    /\ now = Now0
    /\ call = NoCall

NextAgreement ==
    \/ RecordSale(AgreementSales)
    \/ CallGenerateProductForecasts
    \/ CallCalculateDemandVelocity

SpecAgreement == InitAgreement /\ [][NextAgreement]_vars

\* the transfer matcher over sales at every candidate location
InitTransfer ==
    /\ products \in TransferCatalogues
    /\ sales = <<>>
    /\ now = Now0
    /\ call = NoCall

NextTransfer ==
    \/ RecordSale(TransferSales)
    \/ CallFindTransferOpportunities

SpecTransfer == InitTransfer /\ [][NextTransfer]_vars

\* POST /api/sales from the stores: each of them may have recorded a sale
RecordStoreSale ==
    /\ Len(sales) < MaxStoreSales
    /\ \E s \in StoreSales : sales' = Append(sales, s)
    /\ call' = NoCall
    /\ UNCHANGED <<products, now>>

\* the transfer matcher while every store sells
InitStores ==
    /\ products \in StoreCatalogues
    /\ sales = <<>>
    /\ now = Now0
    /\ call = NoCall

NextStores ==
    \/ RecordStoreSale
    \/ CallFindTransferOpportunities

SpecStores == InitStores /\ [][NextStores]_vars

\* the metric primitives and classifiers applied to their arguments
InitMetrics ==
    /\ products = <<>>
    /\ sales = <<>>
    /\ now = Now0
    /\ call = NoCall

NextMetrics ==
    \/ CallCalculateInventoryCover
    \/ CallCalculateAgingScore
    \/ CallAnalyzeStockHealth

SpecMetrics == InitMetrics /\ [][NextMetrics]_vars

----------------------------------------------------------------------------
(* Properties of the insight generator (checked under Spec) *)

\* the category priorities as the design states them
ClaimedPriority(type) ==
    CASE type = "Risk Mitigation" -> 3
      [] type = "Profit Optimization" -> 2
      [] type = "Cash Flow" -> 1
      [] type = "Growth" -> 0

ProductIndex(productId) == CHOOSE i \in 1..Len(products) : products[i].id = productId

WarehouseIndex(locId) == CHOOSE i \in 1..Len(warehouseIds) : warehouseIds[i] = locId

\* where an insight is appended: transfers first (by product, source, target),
\* then dead stock (by product), then reorders (by product)
InsertionKey(ins) ==
    IF ins.actionType = "TRANSFER"
    THEN <<1, ProductIndex(ins.metadata.productId),
           WarehouseIndex(ins.metadata.from), WarehouseIndex(ins.metadata.to)>>
    ELSE IF ins.actionType = "LIQUIDATE"
    THEN <<2, ProductIndex(ins.metadata.productId), 0, 0>>
    ELSE <<3, ProductIndex(ins.metadata.productId), 0, 0>>

LexLess(a, b) ==
    \E i \in 1..Len(a) : a[i] < b[i] /\ \A j \in 1..(i - 1) : a[j] = b[j]

(* C1: every TRANSFER insight that findTransferOpportunities emits, of quantity q
   for product p, has (price - cost) * q > 50 + 2 * q, an absent price or cost
   counting as 0: no emitted transfer has a gain at or below its cost. *)
C1_TransferGainExceedsCost ==
    call.op = "findTransferOpportunities" =>
        \A k \in 1..Len(call.ret) :
            LET ins == call.ret[k]
                q == ins.metadata.qty
                p == products[ProductIndex(ins.metadata.productId)]
            IN  ins.actionType = "TRANSFER" =>
                    (OrZero(p.price) - OrZero(p.cost)) * q > 50 + 2 * q

\* a transfer has been emitted
C1_Witness ==
    /\ call.op = "findTransferOpportunities"
    /\ \E k \in 1..Len(call.ret) :
          call.ret[k].actionType = "TRANSFER" /\ call.ret[k].metadata.qty > 0

(* C2: the list generateStrategicInsights returns has at most 5 elements and is
   in non-increasing order of category priority (Risk Mitigation 3, Profit
   Optimization 2, Cash Flow 1, Growth 0). *)
C2_RankedTopFive ==
    call.op = "generateStrategicInsights" =>
        /\ Len(call.ret) <= 5
        /\ \A i, j \in 1..Len(call.ret) :
              i < j => ClaimedPriority(call.ret[i].type) >= ClaimedPriority(call.ret[j].type)

\* more than 5 candidates, of which a lower category was appended before a higher one
C2_Witness ==
    /\ call.op = "generateStrategicInsights"
    /\ Len(CandidateInsights(products, sales, now)) > 5
    /\ Len(call.ret) = 5
    /\ \E i, j \in 1..Len(call.ret) : call.ret[i].type # call.ret[j].type

(* C3: generateStrategicInsights returns the first min(5, n) elements of the
   stable priority-descending sort of its n candidates, the candidates being
   appended as transfers (by product, then source, then target), then dead
   stock (by product), then reorders (by product): within a category the order
   of insertion is kept and no omitted insight outranks an included one. *)
C3_StableTopOfCandidates ==
    call.op = "generateStrategicInsights" =>
        LET c == CandidateInsights(products, sales, now)
            n == Len(c)
            OfPriority(k) == SelectSeq(c, LAMBDA x : ClaimedPriority(x.type) = k)
            expected == OfPriority(3) \o OfPriority(2) \o OfPriority(1) \o OfPriority(0)
        IN  /\ \A i, j \in 1..n : i < j => LexLess(InsertionKey(c[i]), InsertionKey(c[j]))
            /\ call.ret = SubSeq(expected, 1, IF n < 5 THEN n ELSE 5)

\* more than 5 candidates, two returned insights of one category, and one omitted
C3_Witness ==
    /\ call.op = "generateStrategicInsights"
    /\ Len(CandidateInsights(products, sales, now)) > 5
    /\ \E i, j \in 1..Len(call.ret) :
          i < j /\ call.ret[i].type = call.ret[j].type
                /\ call.ret[i].metadata.productId # call.ret[j].metadata.productId
    /\ \E i \in 1..Len(call.ret) : call.ret[i].type = "Risk Mitigation"
    /\ \E i \in 1..Len(call.ret) : call.ret[i].type = "Profit Optimization"

(* C8: detectDeadStock is false for every product whose stock is 0 at every
   location, whatever the sales history and thresholdDays. *)
C8_NoDeadStockWithoutStock ==
    call.op = "detectDeadStock" =>
        LET p == products[call.product]
        IN  (\A l \in DOMAIN p.stock : p.stock[l] = 0) => call.ret = FALSE

\* a product without stock whose last sale (or the epoch) is older than the threshold
C8_Witness ==
    /\ call.op = "detectDeadStock"
    /\ \A l \in DOMAIN products[call.product].stock : products[call.product].stock[l] = 0
    /\ \A k \in 1..Len(sales) :
          HasItem(sales[k], products[call.product].id) =>
              now - sales[k].date > call.thresholdDays * TicksPerDay
    /\ Len(sales) > 0
    /\ call.ret = FALSE

----------------------------------------------------------------------------
(* Properties of the velocity and of the forecasts (checked under SpecForecast) *)

\* the quantity of a product on a sale: all of its lines
SoldOn(sale, productId) ==
    SumSeq([i \in 1..Len(sale.items) |->
               IF sale.items[i].id = productId THEN sale.items[i].quantity ELSE 0])

\* the quantity of a product sold on the sales dated from `from` to `to` inclusive
SoldBetween(productId, from, to) ==
    SumSeq([k \in 1..Len(sales) |->
               IF sales[k].date >= from /\ sales[k].date <= to
               THEN SoldOn(sales[k], productId) ELSE 0])

\* later than every sale of the model
Horizon == Now0 + MaxSales + 1

(* C4: calculateDemandVelocity(productId, sales, days) is the sum of the
   quantities of every item matching productId on the sales dated in
   [now - days, now] inclusive, divided by days; sales dated before now - days
   or after now contribute nothing. *)
C4_VelocityIsWindowSumOverDays ==
    call.op = "calculateDemandVelocity" =>
        call.ret.n * call.days
            = SoldBetween(call.productId, now - call.days * TicksPerDay, now) * call.ret.d

(* C5: for every days > 0 and every productId, calculateDemandVelocity of an
   empty sales list is 0. *)
C5_EmptyHistoryZeroVelocity ==
    (call.op = "calculateDemandVelocity" /\ sales = <<>> /\ call.days > 0) => call.ret.n = 0

\* the velocity has been asked of an empty history
C5_Witness ==
    call.op = "calculateDemandVelocity" /\ sales = <<>> /\ call.days > 0 /\ call.ret.n = 0

(* C10: in generateProductForecasts a product whose previous-window quantity
   (sales dated in [now - 60 days, now - 30 days)) is 0 and whose current-window
   quantity (sales dated from now - 30 days on) is > 0 gets trend New, not High
   Growth, growthRate 100 and forecastedSales equal to the current-window
   quantity the forecast reports. *)
C10_NewOverridesGrowth ==
    call.op = "generateProductForecasts" =>
        \A k \in 1..Len(call.ret) :
            LET f == call.ret[k]
                previous == SoldBetween(f.productId, now - 60 * TicksPerDay,
                                        now - 30 * TicksPerDay - 1)
                current == SoldBetween(f.productId, now - 30 * TicksPerDay, Horizon)
            IN  (previous = 0 /\ current > 0) =>
                    /\ f.trend = "New"
                    /\ f.growthRate = FromInt(100)
                    /\ f.currentMonthlySales > 0
                    /\ f.forecastedSales = f.currentMonthlySales

\* a product sold in the current window only has been forecast
C10_Witness ==
    /\ call.op = "generateProductForecasts"
    /\ \E k \in 1..Len(call.ret) :
          /\ SoldBetween(call.ret[k].productId, now - 60 * TicksPerDay,
                         now - 30 * TicksPerDay - 1) = 0
          /\ SoldBetween(call.ret[k].productId, now - 30 * TicksPerDay, Horizon) > 0
          /\ call.ret[k].trend = "New"

----------------------------------------------------------------------------
(* Properties of the metric primitives (checked under SpecMetrics) *)

(* C6: calculateInventoryCover(stock, velocity), stock >= 0, is 0 when
   velocity <= 0 and stock = 0, the sentinel 999 when velocity <= 0 and
   stock > 0, and exactly stock / velocity when velocity > 0. *)
C6_CoverCases ==
    call.op = "calculateInventoryCover" =>
        LET s == call.stockQuantity
            v == call.velocity
            r == call.ret
        IN  /\ (v.n <= 0 /\ s = 0) => r = FromInt(0)
            /\ (v.n <= 0 /\ s > 0) => r = FromInt(999)
            /\ v.n > 0 => r.n * v.n = s * v.d * r.d

\* a stock divided by a positive velocity, the quotient not an integer
C6_Witness ==
    /\ call.op = "calculateInventoryCover"
    /\ call.velocity.n > 0 /\ call.velocity.d > 1
    /\ call.stockQuantity > 0
    /\ call.ret.d > 1

(* C7: calculateInventoryCover returns 999 only when velocity <= 0 and
   stock > 0: no pair (stock >= 0, velocity > 0) produces the value 999. *)
C7_SentinelOnlyForIdleStock ==
    (call.op = "calculateInventoryCover" /\ call.ret = FromInt(999)) =>
        (call.velocity.n <= 0 /\ call.stockQuantity > 0)

(* C9: analyzeStockHealth returns, for every coverDays >= 0, exactly one of
   Overstock, Stockout Risk, Healthy (never Dead Stock): Overstock iff
   coverDays > 2 * optimalCover, otherwise Stockout Risk iff
   coverDays < safetyStockDays, otherwise Healthy; with the defaults (30, 7) no
   coverDays meets both conditions, and where both hold the result is Overstock. *)
C9_HealthClassification ==
    call.op = "analyzeStockHealth" =>
        LET c == call.coverDays
            over == c.n > 2 * call.optimalCover * c.d
            risk == c.n < call.safetyStockDays * c.d
        IN  /\ call.ret \in {"Overstock", "Stockout Risk", "Healthy"}
            /\ call.ret = "Overstock" <=> over
            /\ call.ret = "Stockout Risk" <=> (~over /\ risk)
            /\ call.ret = "Healthy" <=> (~over /\ ~risk)
            /\ (call.optimalCover = 30 /\ call.safetyStockDays = 7) => ~(over /\ risk)
            /\ (over /\ risk) => call.ret = "Overstock"

\* parameters under which a cover is both above twice the optimum and below the safety stock
C9_Witness ==
    /\ call.op = "analyzeStockHealth"
    /\ call.coverDays.n > 2 * call.optimalCover * call.coverDays.d
    /\ call.coverDays.n < call.safetyStockDays * call.coverDays.d
    /\ call.ret = "Overstock"

----------------------------------------------------------------------------
(* Properties of the generators over one snapshot while the clock advances
   (checked under SpecClock) *)

\* the generators that take the whole snapshot
Generators ==
    {"generateStrategicInsights", "findTransferOpportunities", "generateProductForecasts"}

(* C11 as stated: invoking generateStrategicInsights, findTransferOpportunities or
   generateProductForecasts twice on identical (products, sales) returns
   identical output.  Recording a sale clears `call`, so two successive results
   of one generator are always results over the same snapshot. *)
C11_SameSnapshotSameOutput ==
    [][ (call.op \in Generators /\ call'.op = call.op) => call'.ret = call.ret ]_vars

(* C11 amended: invoking one of the three generators twice on identical
   (products, sales) at the same reading of the clock returns identical output;
   the first invocation leaves nothing behind that changes the second. *)
C11_SameSnapshotSameInstantSameOutput ==
    [][ (call.op \in Generators /\ call'.op = call.op /\ call'.at = call.at)
            => call'.ret = call.ret ]_vars

\* a generator has returned insights at a later reading of the clock
C11_Witness ==
    /\ call.op = "generateStrategicInsights"
    /\ call.at = now
    /\ now > Now0
    /\ Len(call.ret) > 0

(* C12: no invocation of generateStrategicInsights, findTransferOpportunities,
   detectDeadStock or generateProductForecasts writes to its inputs: across
   every step in which an invocation returns, the products list (order, stock
   maps, cost, price) and the sales list (order, dates, items) are what they
   were, the sorting steps included. *)
C12_InputsUntouched ==
    [][ (call' # call /\ call'.op # "none")
            => (products' = products /\ sales' = sales) ]_vars

\* the forecasts came back in another order than the products, over a sales
\* list that is not in date order
C12_Witness ==
    /\ call.op = "generateProductForecasts"
    /\ Len(call.ret) = 2
    /\ products[1].id = "p1"
    /\ call.ret[1].productId = "p2"
    /\ Len(sales) = 2
    /\ sales[1].date > sales[2].date

\* a missing cost or price read as 0
ClaimedMargin(p) == OrZero(p.price) - OrZero(p.cost)

(* C13: a product's absent cost or price counts as 0 wherever the engine uses
   it: a TRANSFER insight's net gain is qty * (price - cost) - (50 + 2 * qty), a
   LIQUIDATE insight's capital blocked is total stock * cost, and a REORDER
   insight's protected profit is velocity * 14 * (price - cost), each a number
   computed with 0 in place of the absent value. *)
C13_AbsentCostOrPriceIsZero ==
    call.op = "generateStrategicInsights" =>
        \A k \in 1..Len(call.ret) :
            LET ins == call.ret[k]
                p == products[ProductIndex(ins.metadata.productId)]
            IN  CASE ins.actionType = "TRANSFER" ->
                        ins.roiImpact =
                            Some(FromInt(ins.metadata.qty * ClaimedMargin(p)
                                         - (50 + 2 * ins.metadata.qty)))
                  [] ins.actionType = "LIQUIDATE" ->
                        ins.impact = Some(TotalStock(p) * OrZero(p.cost))
                  [] ins.actionType = "REORDER" ->
                        ins.roiImpact =
                            Some(RatMul(RatMul(calculateDemandVelocity(p.id, sales, 30, call.at),
                                               FromInt(14)),
                                        FromInt(ClaimedMargin(p))))

\* the quantity of a product sold at one location on the sales dated from
\* `from` to `to` inclusive
SoldAtBetween(productId, locId, from, to) ==
    SumSeq([k \in 1..Len(sales) |->
               IF sales[k].locationId = locId /\ sales[k].date >= from /\ sales[k].date <= to
               THEN SoldOn(sales[k], productId) ELSE 0])

\* the product holds 100 units at warehouse-a, where none of it sold in the last
\* 30 days, and 2 units at north-branch, where 15 of it sold (0.5 a day, cover 4)
IsSpecExample(p) ==
    /\ StockAt(p, "warehouse-a") = 100
    /\ StockAt(p, "north-branch") = 2
    /\ SoldAtBetween(p.id, "warehouse-a", call.at - 30 * TicksPerDay, call.at) = 0
    /\ SoldAtBetween(p.id, "north-branch", call.at - 30 * TicksPerDay, call.at) = 15

\* the transfers of a product from warehouse-a to north-branch in the last result
ExampleTransfers(p) ==
    { k \in 1..Len(call.ret) :
        /\ call.ret[k].actionType = "TRANSFER"
        /\ call.ret[k].metadata.productId = p.id
        /\ call.ret[k].metadata.from = "warehouse-a"
        /\ call.ret[k].metadata.to = "north-branch" }

(* C15: for a product with 100 units at warehouse-a and no sales there in the
   window, and 2 units at north-branch where its velocity is 0.5 a day,
   findTransferOpportunities emits a TRANSFER from warehouse-a to north-branch of
   quantity 13 when margin * 13 > 76, and no transfer between the two when
   margin * 13 <= 76. *)
C15_SpecExample ==
    call.op = "findTransferOpportunities" =>
        \A i \in 1..Len(products) :
            IsSpecExample(products[i]) =>
                IF ClaimedMargin(products[i]) * 13 > 76
                THEN /\ Cardinality(ExampleTransfers(products[i])) = 1
                     /\ \A k \in ExampleTransfers(products[i]) : call.ret[k].metadata.qty = 13
                ELSE ExampleTransfers(products[i]) = {}

\* the example with margin 6: 78 > 76, and 13 units go to north-branch
C15_Witness ==
    /\ call.op = "findTransferOpportunities"
    /\ IsSpecExample(products[1])
    /\ ClaimedMargin(products[1]) = 6
    /\ \E k \in ExampleTransfers(products[1]) : call.ret[k].metadata.qty = 13

\* the dates of the sales that hold a line of the product, whatever their place
\* in the list
SaleDatesOf(productId) ==
    { sales[k].date : k \in { j \in 1..Len(sales) :
                                \E i \in 1..Len(sales[j].items) :
                                    sales[j].items[i].id = productId } }

\* the latest of them, the epoch for a product never sold
ClaimedLastSale(productId) ==
    IF SaleDatesOf(productId) = {} THEN Epoch
    ELSE CHOOSE d \in SaleDatesOf(productId) : \A e \in SaleDatesOf(productId) : e <= d

(* C16: detectDeadStock(product, sales, thresholdDays) is true iff the product's
   total stock is > 0 and more than thresholdDays days have passed since the
   latest date among the sales that contain the product, wherever they stand in
   the list; a product never sold counts as last sold at the epoch. *)
C16_DeadStockIffStockAndStale ==
    call.op = "detectDeadStock" =>
        LET p == products[call.product]
        IN  call.ret <=>
                /\ TotalStock(p) > 0
                /\ call.at - ClaimedLastSale(p.id) > call.thresholdDays * TicksPerDay

\* the product sold 30 days ago and then, later in the list, 90 days ago: a
\* tick after, it is not dead stock at the 90-day threshold
C16_Witness ==
    /\ call.op = "detectDeadStock"
    /\ call.thresholdDays = 90
    /\ call.at > Now0
    /\ Len(sales) = 2
    /\ sales[1].date > sales[2].date
    /\ SoldOn(sales[1], products[call.product].id) > 0
    /\ SoldOn(sales[2], products[call.product].id) > 0
    /\ TotalStock(products[call.product]) > 0
    /\ ~call.ret

\* stock on hand and more than 90 days since the latest sale of the product
ClaimedDeadStock(p) ==
    /\ TotalStock(p) > 0
    /\ call.at - ClaimedLastSale(p.id) > 90 * TicksPerDay

\* total stock * cost, an absent cost counting as 0
CapitalBlocked(p) == TotalStock(p) * OrZero(p.cost)

\* the LIQUIDATE insights of a product in the last result
Liquidations(p) ==
    { k \in 1..Len(call.ret) :
        call.ret[k].actionType = "LIQUIDATE" /\ call.ret[k].metadata.productId = p.id }

(* C20: generateStrategicInsights proposes a LIQUIDATE (Cash Flow) for a product
   iff the product is dead stock at the 90-day threshold and its capital blocked
   (total stock * cost) is strictly greater than 1000, and the recovery it states
   is 70% of the capital blocked; dead stock with a capital blocked of 1000 or
   less yields no insight. *)
C20_LiquidateIffDeadAndMaterial ==
    call.op = "generateStrategicInsights" =>
        \A i \in 1..Len(products) :
            LET p == products[i]
            IN  /\ Liquidations(p) # {} <=> (ClaimedDeadStock(p) /\ CapitalBlocked(p) > 1000)
                /\ Cardinality(Liquidations(p)) <= 1
                /\ \A k \in Liquidations(p) :
                      /\ call.ret[k].type = "Cash Flow"
                      /\ call.ret[k].roiImpact = Some(Rat(7 * CapitalBlocked(p), 10))

\* two dead stocks, of capital blocked exactly 1000 and 1100: only the second is
\* proposed for liquidation, with a recovery of 770
C20_Witness ==
    /\ call.op = "generateStrategicInsights"
    /\ \E i, j \in 1..Len(products) :
          /\ ClaimedDeadStock(products[i])
          /\ CapitalBlocked(products[i]) = 1000
          /\ Liquidations(products[i]) = {}
          /\ ClaimedDeadStock(products[j])
          /\ CapitalBlocked(products[j]) = 1100
          /\ \E k \in Liquidations(products[j]) : call.ret[k].roiImpact = Some(FromInt(770))

\* no sale of the list holds a line of the product
NeverSold(productId) == SaleDatesOf(productId) = {}

(* C24: generateProductForecasts returns exactly one forecast for each product
   of the list, a product that no sale contains getting current = previous = 0,
   growthRate 0, trend Stable and forecast 0, and the list is in non-increasing
   order of forecastedSales. *)
C24_OneForecastPerProductSorted ==
    call.op = "generateProductForecasts" =>
        /\ Len(call.ret) = Len(products)
        /\ \A i \in 1..Len(products) :
              Cardinality({ k \in 1..Len(call.ret) :
                              call.ret[k].productId = products[i].id }) = 1
        /\ \A k \in 1..Len(call.ret) :
              NeverSold(call.ret[k].productId) =>
                  /\ call.ret[k].currentMonthlySales = 0
                  /\ call.ret[k].previousMonthlySales = 0
                  /\ call.ret[k].growthRate = FromInt(0)
                  /\ call.ret[k].trend = "Stable"
                  /\ call.ret[k].forecastedSales = 0
        /\ \A j, k \in 1..Len(call.ret) :
              j < k => call.ret[j].forecastedSales >= call.ret[k].forecastedSales

\* the second product of the list is forecast at 16 units and comes first, the
\* first product at 15
C24_Witness ==
    /\ call.op = "generateProductForecasts"
    /\ Len(products) = 2
    /\ call.ret[1].productId = products[2].id
    /\ call.ret[1].forecastedSales = 16
    /\ call.ret[2].forecastedSales = 15

----------------------------------------------------------------------------
(* Properties of the candidate insights (checked under Spec) *)

\* the transfers of the last result
Transfers == { k \in 1..Len(call.ret) : call.ret[k].actionType = "TRANSFER" }

\* what a transfer says of its product and its two ends
SourceStock(ins) == StockAt(products[ProductIndex(ins.metadata.productId)], ins.metadata.from)
TargetStock(ins) == StockAt(products[ProductIndex(ins.metadata.productId)], ins.metadata.to)
SourceSold(ins) ==
    SoldAtBetween(ins.metadata.productId, ins.metadata.from, call.at - 30 * TicksPerDay, call.at)
TargetSold(ins) ==
    SoldAtBetween(ins.metadata.productId, ins.metadata.to, call.at - 30 * TicksPerDay, call.at)

(* C17: every transfer findTransferOpportunities emits has quantity
   q = floor(min(0.5 * sourceStock, (30 - targetCover) * targetVelocity)),
   targetVelocity being the units sold at the target in the last 30 days over 30
   and targetCover the target's stock over it; q > 0, q is at most half of the
   source's stock, and the target's stock plus q is at most 30 days of the
   target's velocity. *)
C17_TransferQuantity ==
    call.op = "findTransferOpportunities" =>
        \A k \in Transfers :
            LET ins == call.ret[k]
                q == ins.metadata.qty
                targetVelocity == Rat(TargetSold(ins), 30)
                targetCover == RatDiv(FromInt(TargetStock(ins)), targetVelocity)
            IN  /\ TargetSold(ins) > 0
                /\ q = RatFloor(RatMin(Rat(SourceStock(ins), 2),
                                       RatMul(RatSub(FromInt(30), targetCover),
                                              targetVelocity)))
                /\ q > 0
                /\ 2 * q <= SourceStock(ins)
                /\ TargetStock(ins) + q <= TargetSold(ins)

\* one transfer of the target's whole need (2 + 13 = the 15 units of 30 days), and
\* one capped at half of the source's stock
C17_Witness ==
    /\ call.op = "findTransferOpportunities"
    /\ \E k \in Transfers :
          /\ 2 * call.ret[k].metadata.qty < SourceStock(call.ret[k])
          /\ TargetStock(call.ret[k]) + call.ret[k].metadata.qty = TargetSold(call.ret[k])
    /\ \E k \in Transfers :
          /\ 2 * call.ret[k].metadata.qty = SourceStock(call.ret[k])
          /\ TargetStock(call.ret[k]) + call.ret[k].metadata.qty < TargetSold(call.ret[k])

\* the insights of one action for one product in the last result
InsightsFor(actionType, productId) ==
    { k \in 1..Len(call.ret) :
        call.ret[k].actionType = actionType /\ call.ret[k].metadata.productId = productId }

\* the units of a product sold anywhere in the 30 days up to the call
SoldLast30(productId) == SoldBetween(productId, call.at - 30 * TicksPerDay, call.at)

(* C19: generateStrategicInsights proposes a REORDER (Risk Mitigation) for a
   product iff its overall velocity (units sold in the last 30 days over 30) is
   > 0.5 a day and its overall cover (total stock over that velocity) is < 14
   days; the reorder quantity is ceil(velocity * 30).  The lists hold at most
   two products, so every reorder candidate is within the five insights
   returned. *)
C19_ReorderIffLowCoverAndDemand ==
    call.op = "generateStrategicInsights" =>
        \A i \in 1..Len(products) :
            LET p == products[i]
                sold == SoldLast30(p.id)
                reorders == InsightsFor("REORDER", p.id)
            IN  /\ reorders # {} <=> (2 * sold > 30 /\ TotalStock(p) * 30 < 14 * sold)
                /\ Cardinality(reorders) <= 1
                /\ \A k \in reorders :
                      /\ call.ret[k].type = "Risk Mitigation"
                      /\ call.ret[k].metadata.reorderQty
                            = DoubleCeil(DoubleTimesNat(DoubleQuotient(sold, 30), 30))

\* a product out of stock everywhere that sold more than 15 units in 30 days
C19_Witness ==
    /\ call.op = "generateStrategicInsights"
    /\ \E i \in 1..Len(products) :
          /\ TotalStock(products[i]) = 0
          /\ SoldLast30(products[i].id) > 15
          /\ \E k \in InsightsFor("REORDER", products[i].id) :
                call.ret[k].metadata.reorderQty = SoldLast30(products[i].id)

\* the candidates of one run of generateStrategicInsights, before the ranking
\* keeps the first five
CandidatesAtCall == CandidateInsights(products, sales, call.at)

\* the products that a list of candidates proposes one action for
ProductsWith(candidates, actionType) ==
    { candidates[k].metadata.productId :
        k \in { j \in 1..Len(candidates) : candidates[j].actionType = actionType } }

(* C29: within one run of generateStrategicInsights, before the truncation, a
   product that is a LIQUIDATE candidate is neither a TRANSFER nor a REORDER
   candidate: a transfer or a reorder of a product needs a sale of it within
   the last 30 days, a liquidation needs that none is dated within the last 90
   days. *)
C29_LiquidateExcludesTransferAndReorder ==
    call.op = "generateStrategicInsights" =>
        LET candidates == CandidatesAtCall
            moved == ProductsWith(candidates, "TRANSFER") \cup ProductsWith(candidates, "REORDER")
            liquidated == ProductsWith(candidates, "LIQUIDATE")
        IN  /\ liquidated \cap moved = {}
            /\ \A productId \in moved : SoldLast30(productId) > 0
            /\ \A productId \in liquidated :
                   \A d \in SaleDatesOf(productId) : d < call.at - 90 * TicksPerDay

\* one product, last sold more than 90 days ago, is to be liquidated in the run
\* that proposes a transfer of the other
C29_Witness ==
    /\ call.op = "generateStrategicInsights"
    /\ LET candidates == CandidatesAtCall
       IN  /\ ProductsWith(candidates, "TRANSFER") # {}
           /\ \E productId \in ProductsWith(candidates, "LIQUIDATE") :
                  SaleDatesOf(productId) # {}

\* the category and the confidence that go with an action type
PairedType(actionType) ==
    CASE actionType = "TRANSFER" -> "Profit Optimization"
      [] actionType = "LIQUIDATE" -> "Cash Flow"
      [] actionType = "REORDER" -> "Risk Mitigation"

PairedConfidence(actionType) ==
    CASE actionType = "TRANSFER" -> Rat(90, 100)
      [] actionType = "LIQUIDATE" -> Rat(85, 100)
      [] actionType = "REORDER" -> Rat(95, 100)

(* C30: every insight returned by generateStrategicInsights pairs its category
   and its action: TRANSFER with Profit Optimization and confidence 0.9,
   LIQUIDATE with Cash Flow and 0.85, REORDER with Risk Mitigation and 0.95; no
   returned insight has type Growth or action PRICE_ADJUST, and every
   confidence score lies in [0, 1]. *)
C30_CategoryMatchesAction ==
    call.op = "generateStrategicInsights" =>
        \A k \in 1..Len(call.ret) :
            LET ins == call.ret[k]
            IN  /\ ins.actionType \in {"TRANSFER", "LIQUIDATE", "REORDER"}
                /\ ins.type = PairedType(ins.actionType)
                /\ ins.confidenceScore = PairedConfidence(ins.actionType)
                /\ ins.type # "Growth"
                /\ ins.actionType # "PRICE_ADJUST"
                /\ RatGE(ins.confidenceScore, FromInt(0))
                /\ RatLE(ins.confidenceScore, FromInt(1))

\* one returned list holds a reorder, of the highest rank, and a liquidation, of
\* the lowest
C30_Witness ==
    /\ call.op = "generateStrategicInsights"
    /\ \A a \in {"REORDER", "LIQUIDATE"} :
          \E k \in 1..Len(call.ret) : call.ret[k].actionType = a

----------------------------------------------------------------------------
(* Properties of the transfer matcher over the whole network (checked under
   SpecTransfer) *)

\* the locations the matcher considers
CandidateSet == {"warehouse-a", "store-downtown", "north-branch", "city-center-store"}

\* cover > 60 days for a stock and the units sold locally in 30 days: idle stock
\* counts as 999 days, no stock and no sales as 0
CoverAbove60(stock, sold) ==
    IF sold = 0 THEN stock > 0 ELSE stock * 30 > 60 * sold

\* cover < 10 days in the same terms
CoverBelow10(stock, sold) ==
    IF sold = 0 THEN stock = 0 ELSE stock * 30 < 10 * sold

(* C18: every transfer findTransferOpportunities emits goes from a candidate
   location with cover > 60 days and stock > 10 units to a candidate location
   with cover < 10 days and velocity > 0.1 units a day (more than 3 units in 30
   days), each location's velocity counting only the sales recorded at that
   location; a location with stock 0 and velocity 0 is never a target. *)
C18_TransferEnds ==
    call.op = "findTransferOpportunities" =>
        \A k \in Transfers :
            LET ins == call.ret[k]
            IN  /\ ins.metadata.from \in CandidateSet
                /\ ins.metadata.to \in CandidateSet
                /\ SourceStock(ins) > 10
                /\ CoverAbove60(SourceStock(ins), SourceSold(ins))
                /\ CoverBelow10(TargetStock(ins), TargetSold(ins))
                /\ TargetSold(ins) * 10 > 30
                /\ ~(TargetStock(ins) = 0 /\ TargetSold(ins) = 0)

\* city-center-store, selling 30 units a month with 5 in stock, receives a
\* transfer, while north-branch, with no stock and no sales, receives nothing
C18_Witness ==
    /\ call.op = "findTransferOpportunities"
    /\ \E k \in Transfers :
          /\ call.ret[k].metadata.to = "city-center-store"
          /\ TargetStock(call.ret[k]) = 5
          /\ TargetSold(call.ret[k]) = 30
    /\ StockAt(products[1], "north-branch") = 0
    /\ \A j \in 1..Len(sales) : sales[j].locationId # "north-branch"

\* the figures of a candidate location of a product at the instant of the call
StatAtCall(p, locId) == LocStat(p, locId, sales, call.at)

(* C28: no transfer emitted by findTransferOpportunities has the same location
   as source and as target: whatever the stock map and the sales, no candidate
   location is at once in the overstocked set and in the starving set of a
   product. *)
C28_SourceIsNotTarget ==
    call.op = "findTransferOpportunities" =>
        /\ \A k \in Transfers : call.ret[k].metadata.from # call.ret[k].metadata.to
        /\ \A i \in 1..Len(products) : \A locId \in CandidateSet :
               ~(/\ IsOverstocked(StatAtCall(products[i], locId))
                 /\ IsStarving(StatAtCall(products[i], locId)))

\* warehouse-a sells more than a unit in ten days, stays overstocked, and is the
\* source of a transfer; it is the target of none
C28_Witness ==
    /\ call.op = "findTransferOpportunities"
    /\ RatGT(StatAtCall(products[1], "warehouse-a").velocity, Rat(1, 10))
    /\ \E k \in Transfers : call.ret[k].metadata.from = "warehouse-a"
    /\ \A k \in Transfers : call.ret[k].metadata.to # "warehouse-a"

----------------------------------------------------------------------------
(* Properties of the aging score (checked under SpecMetrics) *)

\* days elapsed from a last-movement instant to the instant of the call
DaysElapsed == Rat(call.at - call.lastMovementDate[1], TicksPerDay)

(* C14 as stated: calculateAgingScore returns 0 when no last-movement date is
   given, and otherwise (days elapsed since that date) / max(coverDays, 1), for
   every coverDays >= 0. *)
C14_AgingOverCoverFlooredAtOne ==
    call.op = "calculateAgingScore" =>
        IF call.lastMovementDate = None
        THEN call.ret = FromInt(0)
        ELSE RatMul(call.ret, IF RatLT(call.coverDays, FromInt(1))
                              THEN FromInt(1) ELSE call.coverDays) = DaysElapsed

(* C14 amended: calculateAgingScore returns 0 when no last-movement date is
   given, and otherwise (days elapsed since that date) / coverDays, with the
   divisor 1 only when coverDays is exactly 0; a cover strictly between 0 and 1
   divides as it is. *)
C14_AgingOverCoverUnlessZero ==
    call.op = "calculateAgingScore" =>
        IF call.lastMovementDate = None
        THEN call.ret = FromInt(0)
        ELSE RatMul(call.ret, IF call.coverDays = FromInt(0)
                              THEN FromInt(1) ELSE call.coverDays) = DaysElapsed

\* half a day of cover and a stock that last moved ten days ago: score 20
C14_Witness ==
    /\ call.op = "calculateAgingScore"
    /\ call.lastMovementDate = Some(Now0 - 10 * TicksPerDay)
    /\ call.coverDays = Rat(1, 2)
    /\ call.ret = FromInt(20)


----------------------------------------------------------------------------
(* Properties of the forecast of one product (checked under SpecForecast) *)

\* the units of a product on the sales of the previous window, dated from 60
\* days up to but not including 30 days before the call
PreviousWindowSold(productId) ==
    SoldBetween(productId, call.at - 60 * TicksPerDay, call.at - 30 * TicksPerDay - 1)

\* the units of a product on the sales of the current window, dated from 30 days
\* before the call on
CurrentWindowSold(productId) ==
    SoldBetween(productId, call.at - 30 * TicksPerDay, Horizon)

(* C21: for every product, generateProductForecasts sets growthRate to
   (current - previous) / previous * 100 when the product sold in the previous
   window, current and previous being the two quantities the forecast reports,
   to 100 when it sold in the current window only, and to 0 when it sold in
   neither; the divisor is never 0. *)
C21_GrowthRateCases ==
    call.op = "generateProductForecasts" =>
        \A k \in 1..Len(call.ret) :
            LET f == call.ret[k]
                current == f.currentMonthlySales
                previous == f.previousMonthlySales
            IN  CASE PreviousWindowSold(f.productId) > 0 ->
                        /\ previous > 0
                        /\ RatMul(f.growthRate, FromInt(previous))
                              = FromInt((current - previous) * 100)
                  [] PreviousWindowSold(f.productId) = 0
                        /\ CurrentWindowSold(f.productId) > 0 ->
                        f.growthRate = FromInt(100)
                  [] OTHER -> f.growthRate = FromInt(0)

\* one product went from 5 to 4 units (-20%) while the other sold nothing (0%)
C21_Witness ==
    /\ call.op = "generateProductForecasts"
    /\ \E k \in 1..Len(call.ret) :
          /\ call.ret[k].previousMonthlySales = 5
          /\ call.ret[k].currentMonthlySales = 4
          /\ call.ret[k].growthRate = FromInt(-20)
    /\ \E k \in 1..Len(call.ret) :
          /\ PreviousWindowSold(call.ret[k].productId) = 0
          /\ CurrentWindowSold(call.ret[k].productId) = 0
          /\ call.ret[k].growthRate = FromInt(0)


(* C22: for every product that sold in the previous window, or in neither
   window, the forecast trend is High Growth iff growthRate >= 20, Declining iff
   growthRate <= -20, and Stable otherwise; exactly 20 is High Growth and
   exactly -20 is Declining. *)
C22_TrendThresholds ==
    call.op = "generateProductForecasts" =>
        \A k \in 1..Len(call.ret) :
            LET f == call.ret[k]
            IN  (f.previousMonthlySales > 0
                    \/ (f.previousMonthlySales = 0 /\ f.currentMonthlySales = 0)) =>
                    /\ f.trend = "High Growth" <=> RatGE(f.growthRate, FromInt(20))
                    /\ f.trend = "Declining" <=> RatLE(f.growthRate, FromInt(-20))
                    /\ f.trend = "Stable" <=>
                          (RatLT(f.growthRate, FromInt(20)) /\ RatGT(f.growthRate, FromInt(-20)))

\* a product that went from 5 to 6 units: growth of exactly 20, High Growth
C22_Witness ==
    /\ call.op = "generateProductForecasts"
    /\ \E k \in 1..Len(call.ret) :
          /\ call.ret[k].previousMonthlySales = 5
          /\ call.ret[k].currentMonthlySales = 6
          /\ call.ret[k].growthRate = FromInt(20)
          /\ call.ret[k].trend = "High Growth"


\* ceil(quantity * tenths / 10) for a quantity >= 0, in integers
CeilOfTenths(quantity, tenths) == (quantity * tenths + 9) \div 10

(* C23: for every product, forecastedSales = ceil(current * m), current being
   the current-window quantity the forecast reports and m being 1.2 for High
   Growth, 0.9 for Declining and 1.0 for Stable and New; so forecastedSales is
   an integer >= 0, at least current for High Growth, at most current for
   Declining and equal to it for Stable and New. *)
C23_ForecastIsCeilOfMomentum ==
    call.op = "generateProductForecasts" =>
        \A k \in 1..Len(call.ret) :
            LET f == call.ret[k]
                current == f.currentMonthlySales
            IN  /\ f.forecastedSales \in Nat
                /\ f.trend \in {"High Growth", "Declining", "Stable", "New"}
                /\ f.trend = "High Growth" =>
                      (f.forecastedSales = CeilOfTenths(current, 12)
                          /\ f.forecastedSales >= current)
                /\ f.trend = "Declining" =>
                      (f.forecastedSales = CeilOfTenths(current, 9)
                          /\ f.forecastedSales <= current)
                /\ f.trend \in {"Stable", "New"} => f.forecastedSales = current

\* 6 units in a growing month are forecast as ceil(7.2) = 8
C23_Witness ==
    /\ call.op = "generateProductForecasts"
    /\ \E k \in 1..Len(call.ret) :
          /\ call.ret[k].trend = "High Growth"
          /\ call.ret[k].currentMonthlySales = 6
          /\ call.ret[k].forecastedSales = 8

\* the quantities of a product on the sales of one calendar day that are dated
\* within the 60 days before the call
SoldOnDay(productId, day) ==
    SumSeq([j \in 1..Len(sales) |->
               IF DateStr(sales[j].date) = day /\ sales[j].date >= call.at - 60 * TicksPerDay
               THEN SoldOn(sales[j], productId) ELSE 0])

(* C26: for every product, the forecast history has at most one entry per
   calendar day, in strictly ascending date order, each value being the sum of
   that day's quantities of the product, and the values add up to
   currentMonthlySales + previousMonthlySales. *)
C26_HistoryByDay ==
    call.op = "generateProductForecasts" =>
        \A k \in 1..Len(call.ret) :
            LET f == call.ret[k]
                h == f.history
            IN  /\ \A i, j \in 1..Len(h) : i < j => h[i].date < h[j].date
                /\ \A i \in 1..Len(h) : h[i].value = SoldOnDay(f.productId, h[i].date)
                /\ SumSeq([i \in 1..Len(h) |-> h[i].value])
                      = f.currentMonthlySales + f.previousMonthlySales

----------------------------------------------------------------------------
(* Agreement of the forecast with the velocity (checked under SpecAgreement) *)

\* no sale of the list is dated after the instant of the call
NoSaleAfterCall == \A j \in 1..Len(sales) : sales[j].date <= call.at

(* C25 as stated: on every sales history without a sale dated after now, the
   currentMonthlySales that generateProductForecasts reports for a product
   equals 30 * calculateDemandVelocity(productId, sales, 30) taken at the same
   instant, the velocity being the double the engine returns and the product
   the double that 30 * velocity is. *)
C25_ThirtyTimesVelocityIsCurrent ==
    (call.op = "generateProductForecasts" /\ NoSaleAfterCall) =>
        \A k \in 1..Len(call.ret) :
            DoubleTimesNat(
                AsDouble(calculateDemandVelocity(call.ret[k].productId, sales, 30, call.at)),
                30)
            = DoubleOfNat(call.ret[k].currentMonthlySales)

(* C25 amended: on every sales history without a sale dated after now,
   calculateDemandVelocity(productId, sales, 30) taken at the same instant is
   the currentMonthlySales that generateProductForecasts reports for the
   product, divided by 30. *)
C25_VelocityIsCurrentOverThirty ==
    (call.op = "generateProductForecasts" /\ NoSaleAfterCall) =>
        \A k \in 1..Len(call.ret) :
            calculateDemandVelocity(call.ret[k].productId, sales, 30, call.at)
                = Rat(call.ret[k].currentMonthlySales, 30)

\* 15 units sold exactly 30 days before the call and 16 at the instant of the
\* call: 31 in the current window
C25_Witness ==
    /\ call.op = "generateProductForecasts"
    /\ NoSaleAfterCall
    /\ Len(sales) = 2
    /\ sales[1].date = call.at - 30 * TicksPerDay
    /\ sales[2].date = call.at
    /\ \E k \in 1..Len(call.ret) :
          /\ call.ret[k].productId = "p1"
          /\ call.ret[k].currentMonthlySales = 31

----------------------------------------------------------------------------
(* Properties of the transfers out of one source (checked under SpecStores) *)

\* the transfers of one product out of one location
TransfersOutOf(productId, locId) ==
    { k \in Transfers : /\ call.ret[k].metadata.productId = productId
                        /\ call.ret[k].metadata.from = locId }

\* the units of one product that the transfers take out of one location
UnitsOutOf(productId, locId) ==
    SumSeq([k \in 1..Len(call.ret) |->
               IF k \in TransfersOutOf(productId, locId) THEN call.ret[k].metadata.qty ELSE 0])

(* C27: for every product and every source location, the quantities of all the
   transfers that findTransferOpportunities emits out of that source, over all
   its targets, add up to no more than the stock the source holds. *)
C27_TransfersWithinSourceStock ==
    call.op = "findTransferOpportunities" =>
        \A i \in 1..Len(products) : \A locId \in DOMAIN products[i].stock :
            UnitsOutOf(products[i].id, locId) <= StockAt(products[i], locId)

=============================================================================
